---- MODULE Spec2Model ----
(***************************************************************************)
(* Model of research/substate_task.go: the SubstateTaskPool scheduler.     *)
(* ExecuteSegment runs one producer goroutine, numWorkers worker           *)
(* goroutines and the calling goroutine (the coordinator), connected by    *)
(* three buffered channels: workChan, doneChan and stopChan.               *)
(***************************************************************************)
EXTENDS Integers, Sequences, FiniteSets, TLC

(***************************************************************************)
(* Bounds of the model.                                                    *)
(***************************************************************************)
\* largest worker count tried (pool.NumWorkers() ranges over 1..MaxWorkers)
MaxWorkers == 2
\* longest segment tried (last - first + 1 ranges over 1..MaxSegLen)
MaxSegLen == 3
\* worker count plus segment length of a run is at most MaxLoad
MaxLoad == 5
\* segment.First is 0 or MaxFirst
MaxFirst == 1
\* buffered slots per worker of workChan and doneChan.  The source uses
\* 1000 slots per worker; the model scales the factor down so that full
\* queues (back-pressure) occur within the segment lengths it explores.
QueueFactor == 1
\* at most this many blocks of the segment make the callback fail
MaxFail == 2
\* width in bits of a block number in the model (uint64 in the source)
UintWidth == 3
\* number of ExecuteSegment invocations on the same segment (SpecRerun)
MaxRuns == 2
\* most transactions in the block given to one call of ExecuteBlock
MaxTxs == 3
\* blocks the producer may emit beyond the length of the segment when the
\* block number wraps around (SpecMaxLast)
MaxWrap == 2
\* longest string of the alphabet given to the range parser
MaxStrLen == 4
\* width in bits of a parsed number in the model (64 in the source): wide
\* enough for two units of the larger scale, narrow enough for a string of
\* eight digits to overflow
ParseBits == 21

\* the two scales of a block segment (lines 83-84 and 86-87)
Kilo == 1000
Mega == 1000000

UintMod == 2 ^ UintWidth
MaxUint == UintMod - 1

VARIABLES
    first, last,        \* segment.First, segment.Last
    config,             \* pool.Config (the three filters)
    failing,            \* the callback: set of <<block, tx>> where TaskFunc errs
    db,                 \* pool.DB: block |-> its substates in index order
    cfgWorkers,         \* pool.Config.Workers
    cpuCounts,          \* what cpu.Counts(false) returns: (cores, err)
    numCPU,             \* what runtime.NumCPU() returns
    numWorkers,         \* numWorkers := pool.NumWorkers()
    workCap, doneCap, stopCap,  \* capacities the three channels were made with
    workChan,           \* chan uint64, FIFO of block numbers
    doneChan,           \* chan interface{}, FIFO of completion records
    stopChan,           \* chan struct{}: number of buffered stop signals
    closed,             \* TRUE once close(workChan); close(doneChan) ran
    totalNumBlock, totalNumTx,  \* the two atomic counters
    ppc, pblock,        \* producer: position and loop variable block
    wpc, wblock, wres,  \* workers: position, block taken, ExecuteBlock result
    cpc,                \* coordinator position
    block,              \* coordinator loop variable (the cursor)
    waitMap,            \* coordinator's pending set
    stopsSent,          \* stop signals sent so far by the shutdown defer
    retErr,             \* value of the return statement that left the loop
    lastReport,         \* block number named by the latest progress report
    summary,            \* the final summary (nb, nt) once printed
    \* history of the run, used to state properties
    emitted,            \* sequence of block numbers the producer put on workChan
    taken,              \* block |-> number of times a worker received it
    recvd,              \* blocks whose success record the coordinator received
    stopsTaken,         \* worker |-> stop signals consumed
    runs, prev,         \* invocation count and the previous invocation's result
    \* one call of ExecuteBlock, ParseBlockSegment or ParseBlockSegmentList
    input,              \* the argument of the call
    output              \* what the call returned (NoOutput before it)

inputs == <<first, last, config, failing, db, cpuCounts, numCPU>>
chans  == <<workChan, doneChan, stopChan, closed>>
counters == <<totalNumBlock, totalNumTx>>
prodv  == <<ppc, pblock, emitted>>
workv  == <<wpc, wblock, wres, taken, stopsTaken>>
coordv == <<cpc, block, waitMap, stopsSent, retErr, lastReport, summary, recvd>>
runv   == <<numWorkers, cfgWorkers, workCap, doneCap, stopCap, runs, prev>>
callv  == <<input, output>>
sched  == <<chans, counters, prodv, workv, coordv, runv>>
vars   == <<inputs, chans, counters, prodv, workv, coordv, runv, callv>>

(***************************************************************************)
(* Values.                                                                 *)
(***************************************************************************)
\* the nil error
NoErr == [kind |-> "nil", block |-> 0, tx |-> 0]
\* fmt.Errorf("%s: %v_%v: %v", pool.Name, block, tx, err)
BlockErr(b, tx) == [kind |-> "error", block |-> b, tx |-> tx]
\* doneChan <- block
BlockDone(b) == [kind |-> "uint64", block |-> b, tx |-> 0]

\* nt, err of a worker that holds no block
NoRes == [numTx |-> 0, err |-> NoErr]

NoReport == -1
NoSummary == <<-1, -1>>
NoPrev == [err |-> NoErr, nb |-> -1, nt |-> -1, workers |-> 0]

\* block++ on a uint64
Inc(b) == (b + 1) % UintMod

(***************************************************************************)
(* The data source and ExecuteBlock.                                       *)
(***************************************************************************)
\* A substate as ExecuteBlock reads it: msg.To (nil or an address), whether
\* alloc[*to] exists, and len(account.Code).
Transfer == [to |-> "addr", exist |-> TRUE,  code |-> 0]
Absent   == [to |-> "addr", exist |-> FALSE, code |-> 0]
Call     == [to |-> "addr", exist |-> TRUE,  code |-> 1]
Create   == [to |-> "nil",  exist |-> FALSE, code |-> 0]

\* pool.DB.GetBlockSubstates(block): the block's transactions in index
\* order; position i of the sequence is transaction index i-1.
GetBlockSubstates(b) == db[b]

\* the data source of the scheduler runs
SegmentDB ==
    [b \in 0 .. MaxUint |->
        CASE b % 3 = 0 -> <<Call, Transfer>>
          [] b % 3 = 1 -> <<Create>>
          [] OTHER     -> <<Transfer, Call, Absent>>]

\* pool.TaskFunc(block, tx, substate, pool) returns a non-nil error
TaskFuncFails(b, tx) == <<b, tx>> \in failing

\* variant: the transfer filter misses a recipient absent from the alloc
SkipTxExistingOnly(s) ==
    IF config.SkipTransferTxs /\ s.to # "nil" /\ (s.exist /\ s.code = 0)
    THEN TRUE
    ELSE IF config.SkipCallTxs /\ s.to # "nil" /\ (s.exist /\ s.code > 0)
    THEN TRUE
    ELSE config.SkipCreateTxs /\ s.to = "nil"

\* the three filters of ExecuteBlock, in the order of the code
SkipTx(s) ==
    IF config.SkipTransferTxs /\ s.to # "nil" /\ (~s.exist \/ s.code = 0)
    THEN TRUE
    ELSE IF config.SkipCallTxs /\ s.to # "nil" /\ (s.exist /\ s.code > 0)
    THEN TRUE
    ELSE config.SkipCreateTxs /\ s.to = "nil"

\* variant: the failing transaction is counted too
RECURSIVE ExecuteBlockFromCountFailing(_, _, _)
ExecuteBlockFromCountFailing(b, i, numTx) ==
    LET txs == GetBlockSubstates(b) IN
    IF i > Len(txs) THEN [numTx |-> numTx, err |-> NoErr, calls |-> << >>]
    ELSE IF SkipTx(txs[i]) THEN ExecuteBlockFromCountFailing(b, i + 1, numTx)
    ELSE IF TaskFuncFails(b, i - 1)
         THEN [numTx |-> numTx + 1, err |-> BlockErr(b, i - 1), calls |-> <<i - 1>>]
         ELSE LET rest == ExecuteBlockFromCountFailing(b, i + 1, numTx + 1)
              IN  [rest EXCEPT !.calls = <<i - 1>> \o @]

\* variant: a skipped transaction is counted too
RECURSIVE ExecuteBlockFromCountSkipped(_, _, _)
ExecuteBlockFromCountSkipped(b, i, numTx) ==
    LET txs == GetBlockSubstates(b) IN
    IF i > Len(txs) THEN [numTx |-> numTx, err |-> NoErr, calls |-> << >>]
    ELSE IF SkipTx(txs[i]) THEN ExecuteBlockFromCountSkipped(b, i + 1, numTx + 1)
    ELSE IF TaskFuncFails(b, i - 1)
         THEN [numTx |-> numTx, err |-> BlockErr(b, i - 1), calls |-> <<i - 1>>]
         ELSE LET rest == ExecuteBlockFromCountSkipped(b, i + 1, numTx + 1)
              IN  [rest EXCEPT !.calls = <<i - 1>> \o @]

\* The loop of ExecuteBlock from position i on, numTx callbacks having
\* succeeded so far.  calls lists the transaction indices TaskFunc is
\* invoked with from position i on, in order of invocation.
RECURSIVE ExecuteBlockFrom(_, _, _)
ExecuteBlockFrom(b, i, numTx) ==
    LET txs == GetBlockSubstates(b) IN
    IF i > Len(txs) THEN [numTx |-> numTx, err |-> NoErr, calls |-> << >>]
    ELSE IF SkipTx(txs[i]) THEN ExecuteBlockFrom(b, i + 1, numTx)
    ELSE IF TaskFuncFails(b, i - 1)
         THEN [numTx |-> numTx, err |-> BlockErr(b, i - 1), calls |-> <<i - 1>>]
         ELSE LET rest == ExecuteBlockFrom(b, i + 1, numTx + 1)
              IN  [rest EXCEPT !.calls = <<i - 1>> \o @]

\* numTx, err of ExecuteBlock(block)
ExecuteBlock(b) ==
    LET r == ExecuteBlockFrom(b, 1, 0) IN [numTx |-> r.numTx, err |-> r.err]

(***************************************************************************)
(* Channel capacities.                                                     *)
(***************************************************************************)
\* make(chan uint64, numWorkers*1000), make(chan interface{}, numWorkers*1000)
ChanCap(n) == n * QueueFactor
\* make(chan struct{}, numWorkers)
StopChanCap(n) == n
\* variant: one stop signal too many
NumStopSignalsExtra(n) == n + 2

\* the shutdown defer sends one signal per worker and one for the producer
NumStopSignals(n) == n + 1

\* variant: the logical processor count is used whenever no count is
\* configured
NumWorkersLogical ==
    IF cfgWorkers > 0 THEN cfgWorkers ELSE numCPU

\* pool.NumWorkers() (lines 161-175)
NumWorkers ==
    IF cfgWorkers > 0 THEN cfgWorkers
    ELSE IF cpuCounts.err = "nil" THEN cpuCounts.cores
    ELSE numCPU

Workers == 1 .. numWorkers
Segment == first .. last

(***************************************************************************)
(* Initial state: the state of ExecuteSegment once the channels are made   *)
(* and the goroutines are started (lines 213-306).                         *)
(***************************************************************************)
\* pool.Config choices explored
NoSkip == [SkipTransferTxs |-> FALSE, SkipCallTxs |-> FALSE, SkipCreateTxs |-> FALSE]
SkipCalls == [SkipTransferTxs |-> FALSE, SkipCallTxs |-> TRUE, SkipCreateTxs |-> FALSE]

\* the (segment.First, pool.Config) pairs explored
Scenarios ==
    { [first |-> 0, config |-> NoSkip], [first |-> MaxFirst, config |-> SkipCalls] }

\* a callback that fails at the last transaction of every block of F
FailAtLastTx(F) == { <<k, Len(GetBlockSubstates(k)) - 1>> : k \in F }

\* the state at the start of one invocation with n workers
StartRun(n) ==
    /\ numWorkers = n
    /\ workCap = ChanCap(n)
    /\ doneCap = ChanCap(n)
    /\ stopCap = StopChanCap(n)
    /\ workChan = << >>
    /\ doneChan = << >>
    /\ stopChan = 0
    /\ closed = FALSE
    /\ totalNumBlock = 0
    /\ totalNumTx = 0
    /\ ppc = "loop"
    /\ pblock = first
    /\ wpc = [w \in 1 .. n |-> "select"]
    /\ wblock = [w \in 1 .. n |-> 0]
    /\ wres = [w \in 1 .. n |-> NoRes]
    /\ cpc = "loop"
    /\ block = first
    /\ waitMap = {}
    /\ stopsSent = 0
    /\ retErr = NoErr
    /\ lastReport = NoReport
    /\ summary = NoSummary
    /\ emitted = << >>
    /\ taken = [b \in 0 .. MaxUint |-> 0]
    /\ recvd = {}
    /\ stopsTaken = [w \in 1 .. n |-> 0]

\* the same, as the next state of a step
StartRunNext(n) ==
    /\ numWorkers' = n
    /\ workCap' = ChanCap(n)
    /\ doneCap' = ChanCap(n)
    /\ stopCap' = StopChanCap(n)
    /\ workChan' = << >>
    /\ doneChan' = << >>
    /\ stopChan' = 0
    /\ closed' = FALSE
    /\ totalNumBlock' = 0
    /\ totalNumTx' = 0
    /\ ppc' = "loop"
    /\ pblock' = first
    /\ wpc' = [w \in 1 .. n |-> "select"]
    /\ wblock' = [w \in 1 .. n |-> 0]
    /\ wres' = [w \in 1 .. n |-> NoRes]
    /\ cpc' = "loop"
    /\ block' = first
    /\ waitMap' = {}
    /\ stopsSent' = 0
    /\ retErr' = NoErr
    /\ lastReport' = NoReport
    /\ summary' = NoSummary
    /\ emitted' = << >>
    /\ taken' = [b \in 0 .. MaxUint |-> 0]
    /\ recvd' = {}
    /\ stopsTaken' = [w \in 1 .. n |-> 0]

\* a machine on which cpu.Counts succeeds
OneCore == [cores |-> 1, err |-> "nil"]

\* no call of a parsing function or of ExecuteBlock alone is under way
NoInput == << >>
NoOutput == [fn |-> "none"]

Init ==
    /\ \E sc \in Scenarios : first = sc.first /\ config = sc.config
    /\ db = SegmentDB
    /\ cpuCounts = OneCore
    /\ numCPU = 1
    /\ input = NoInput
    /\ output = NoOutput
    /\ last \in first .. (first + MaxSegLen - 1)
    /\ last < MaxUint
    /\ \E F \in SUBSET (first .. last) :
          /\ Cardinality(F) <= MaxFail
          /\ failing = FailAtLastTx(F)
    /\ \E n \in 1 .. MaxWorkers :
          /\ n + (last - first + 1) <= MaxLoad
          /\ cfgWorkers = n
          /\ StartRun(NumWorkers)
    /\ runs = 1
    /\ prev = NoPrev

(***************************************************************************)
(* Producer goroutine (lines 287-301).                                     *)
(***************************************************************************)
\* variant: the producer loop runs one block too far
ProducerContinuePastLast(b) == b <= last + 1

\* loop condition: block <= segment.Last
ProducerContinue(b) == b <= last

\* case workChan <- block: continue   (then block++)
ProducerSend ==
    /\ ppc = "loop"
    /\ ProducerContinue(pblock)
    /\ Len(workChan) < workCap
    /\ workChan' = Append(workChan, pblock)
    /\ emitted' = Append(emitted, pblock)
    /\ pblock' = Inc(pblock)
    /\ UNCHANGED <<inputs, callv, doneChan, stopChan, closed, counters, ppc, workv, coordv, runv>>

\* case <-stopChan: return
ProducerStop ==
    /\ ppc = "loop"
    /\ ProducerContinue(pblock)
    /\ stopChan > 0
    /\ stopChan' = stopChan - 1
    /\ ppc' = "stopped"
    /\ UNCHANGED <<inputs, callv, workChan, doneChan, closed, counters, pblock, emitted, workv, coordv, runv>>

\* the loop condition fails: the goroutine ends (wg.Done)
ProducerExit ==
    /\ ppc = "loop"
    /\ ~ProducerContinue(pblock)
    /\ ppc' = "exited"
    /\ UNCHANGED <<inputs, callv, chans, counters, pblock, emitted, workv, coordv, runv>>

(***************************************************************************)
(* Worker goroutines (lines 261-282).                                      *)
(***************************************************************************)
\* case block := <-workChan
WorkerRecv(w) ==
    /\ wpc[w] = "select"
    /\ Len(workChan) > 0
    /\ wblock' = [wblock EXCEPT ![w] = Head(workChan)]
    /\ workChan' = Tail(workChan)
    /\ taken' = [taken EXCEPT ![Head(workChan)] = @ + 1]
    /\ wpc' = [wpc EXCEPT ![w] = "exec"]
    /\ UNCHANGED <<inputs, callv, doneChan, stopChan, closed, counters, prodv, wres, stopsTaken, coordv, runv>>

\* case <-stopChan: return   (wg.Done)
WorkerStop(w) ==
    /\ wpc[w] = "select"
    /\ stopChan > 0
    /\ stopChan' = stopChan - 1
    /\ stopsTaken' = [stopsTaken EXCEPT ![w] = @ + 1]
    /\ wpc' = [wpc EXCEPT ![w] = "exited"]
    /\ UNCHANGED <<inputs, callv, workChan, doneChan, closed, counters, prodv, wblock, wres, taken, coordv, runv>>

\* variant: the worker counts one per block instead of adding nt
TxIncPerBlock(res) == 1

\* what atomic.AddInt64(&totalNumTx, nt) adds
TxInc(res) == res.numTx

\* variant: the worker goes on to its send without adding to totalNumBlock
AfterTxAddSend == "send"

\* the statement after atomic.AddInt64(&totalNumTx, nt): the addition to
\* totalNumBlock, which comes before the send to doneChan
AfterTxAdd == "addBlock"

\* nt, err := pool.ExecuteBlock(block); atomic.AddInt64(&totalNumTx, nt)
WorkerExecute(w) ==
    /\ wpc[w] = "exec"
    /\ wres' = [wres EXCEPT ![w] = ExecuteBlock(wblock[w])]
    /\ totalNumTx' = totalNumTx + TxInc(ExecuteBlock(wblock[w]))
    /\ wpc' = [wpc EXCEPT ![w] = AfterTxAdd]
    /\ UNCHANGED <<inputs, callv, chans, totalNumBlock, prodv, wblock, taken, stopsTaken, coordv, runv>>

\* variant: the worker counts a block only when ExecuteBlock succeeded
BlockIncOnSuccess(res) == IF res.err = NoErr THEN 1 ELSE 0

\* what atomic.AddInt64(&totalNumBlock, 1) adds
BlockInc(res) == 1

\* atomic.AddInt64(&totalNumBlock, 1)
WorkerAddBlock(w) ==
    /\ wpc[w] = "addBlock"
    /\ totalNumBlock' = totalNumBlock + BlockInc(wres[w])
    /\ wpc' = [wpc EXCEPT ![w] = "send"]
    /\ UNCHANGED <<inputs, callv, chans, totalNumTx, prodv, wblock, wres, taken, stopsTaken, coordv, runv>>

\* variant: the worker publishes the block number whatever err is
DoneRecordNoErr(res, b) == BlockDone(b)

\* variant: on success the worker publishes the count, an int64
DoneRecordCount(res, b) ==
    IF res.err # NoErr THEN res.err
    ELSE [kind |-> "int64", block |-> res.numTx, tx |-> 0]

\* the completion record: err when ExecuteBlock failed, else the block number
DoneRecord(res, b) == IF res.err # NoErr THEN res.err ELSE BlockDone(b)

\* doneChan <- err  /  doneChan <- block   (a plain send: no stop case);
\* block, nt and err then go out of scope
WorkerSend(w) ==
    /\ wpc[w] = "send"
    /\ Len(doneChan) < doneCap
    /\ doneChan' = Append(doneChan, DoneRecord(wres[w], wblock[w]))
    /\ wpc' = [wpc EXCEPT ![w] = "select"]
    /\ wblock' = [wblock EXCEPT ![w] = 0]
    /\ wres' = [wres EXCEPT ![w] = NoRes]
    /\ UNCHANGED <<inputs, callv, workChan, stopChan, closed, counters, prodv, taken, stopsTaken, coordv, runv>>

(***************************************************************************)
(* Coordinator: the calling goroutine (lines 303-351 and the defers).      *)
(***************************************************************************)
\* variant: the cursor advances without looking at the pending set
CanFoldAlways(wm, b) == TRUE

\* if _, ok := waitMap[block]; ok
CanFold(wm, b) == b \in wm
\* variant: the folded block is left in the pending set
WaitMapKeep(wm, b) == wm

\* delete(waitMap, block)
WaitMapDelete(wm, b) == wm \ {b}

\* variant: the coordinator loop stops one block early
CoordContinueBeforeLast(b) == b < last

\* loop condition: block <= segment.Last
CoordContinue(b) == b <= last

\* delete(waitMap, block); block++; continue
CoordFold ==
    /\ cpc = "loop"
    /\ CoordContinue(block)
    /\ CanFold(waitMap, block)
    /\ waitMap' = WaitMapDelete(waitMap, block)
    /\ block' = Inc(block)
    /\ UNCHANGED <<inputs, callv, chans, counters, prodv, workv, cpc, stopsSent, retErr, lastReport, summary, recvd, runv>>

\* seconds since the last report (sec - lastSec) that the clock may show
ElapsedChoices == {0, 6, 11, 21, 41, 61}

\* the report condition of lines 319-324, e = sec - lastSec
ReportDue(b, e) ==
    \/ b = last
    \/ (b % 10000 = 0 /\ e > 5)
    \/ (b % 1000 = 0 /\ e > 10)
    \/ (b % 100 = 0 /\ e > 20)
    \/ (b % 10 = 0 /\ e > 40)
    \/ e > 60

\* the cursor's block is not in waitMap: report if due, then wait on doneChan
CoordReport ==
    /\ cpc = "loop"
    /\ CoordContinue(block)
    /\ ~CanFold(waitMap, block)
    /\ \E e \in ElapsedChoices :
          lastReport' = IF ReportDue(block, e) THEN block ELSE lastReport
    /\ cpc' = "recv"
    /\ UNCHANGED <<inputs, callv, chans, counters, prodv, workv, block, waitMap, stopsSent, retErr, summary, recvd, runv>>

\* data := <-doneChan; case uint64: waitMap[data] = struct{}{}
CoordRecvBlock ==
    /\ cpc = "recv"
    /\ Len(doneChan) > 0
    /\ Head(doneChan).kind = "uint64"
    /\ doneChan' = Tail(doneChan)
    /\ waitMap' = waitMap \cup {Head(doneChan).block}
    /\ recvd' = recvd \cup {Head(doneChan).block}
    /\ cpc' = "loop"
    /\ UNCHANGED <<inputs, callv, workChan, stopChan, closed, counters, prodv, workv, block, stopsSent, retErr, lastReport, summary, runv>>

\* variant: the coordinator notes the error and goes on with its loop
AfterErrorRecordLoop == "loop"

\* case error: return err -- the coordinator leaves the loop for its defers
AfterErrorRecord == "stop"

\* data := <-doneChan; case error: return err   (the defers run next)
CoordRecvErr ==
    /\ cpc = "recv"
    /\ Len(doneChan) > 0
    /\ Head(doneChan).kind = "error"
    /\ doneChan' = Tail(doneChan)
    /\ retErr' = Head(doneChan)
    /\ cpc' = AfterErrorRecord
    /\ UNCHANGED <<inputs, callv, workChan, stopChan, closed, counters, prodv, workv, block, waitMap, stopsSent, lastReport, summary, recvd, runv>>

\* the loop condition fails: return nil   (the defers run next)
CoordLoopExit ==
    /\ cpc = "loop"
    /\ ~CoordContinue(block)
    /\ retErr' = NoErr
    /\ cpc' = "stop"
    /\ UNCHANGED <<inputs, callv, chans, counters, prodv, workv, block, waitMap, stopsSent, lastReport, summary, recvd, runv>>

\* shutdown defer: stopChan <- struct{}{}, numWorkers times and once more
CoordSendStop ==
    /\ cpc = "stop"
    /\ stopsSent < NumStopSignals(numWorkers)
    /\ stopChan < stopCap
    /\ stopChan' = stopChan + 1
    /\ stopsSent' = stopsSent + 1
    /\ cpc' = IF stopsSent + 1 = NumStopSignals(numWorkers) THEN "wait" ELSE "stop"
    /\ UNCHANGED <<inputs, callv, workChan, doneChan, closed, counters, prodv, workv, block, waitMap, retErr, lastReport, summary, recvd, runv>>

\* variant: the defer does not wait for the goroutines
WaitGroupDoneAtOnce == TRUE

\* wg.Wait() returns: the producer and every worker did wg.Done()
WaitGroupDone ==
    /\ ppc \in {"exited", "stopped"}
    /\ \A w \in Workers : wpc[w] = "exited"

\* shutdown defer: wg.Wait(); close(workChan); close(doneChan)
CoordWait ==
    /\ cpc = "wait"
    /\ WaitGroupDone
    /\ closed' = TRUE
    /\ cpc' = "summary"
    /\ UNCHANGED <<inputs, callv, workChan, doneChan, stopChan, counters, prodv, workv, block, waitMap, stopsSent, retErr, lastReport, summary, recvd, runv>>

\* summary defer: nb, nt := atomic.Load...; print; ExecuteSegment returns
CoordSummary ==
    /\ cpc = "summary"
    /\ summary' = <<totalNumBlock, totalNumTx>>
    /\ cpc' = "returned"
    /\ UNCHANGED <<inputs, callv, chans, counters, prodv, workv, block, waitMap, stopsSent, retErr, lastReport, recvd, runv>>

Producer == ProducerSend \/ ProducerStop \/ ProducerExit
Worker(w) ==
    WorkerRecv(w) \/ WorkerStop(w) \/ WorkerExecute(w) \/ WorkerAddBlock(w) \/ WorkerSend(w)
SomeWorkerRecv == \E w \in Workers : WorkerRecv(w)
SomeWorkerStop == \E w \in Workers : WorkerStop(w)
SomeWorkerExecute == \E w \in Workers : WorkerExecute(w)
SomeWorkerAddBlock == \E w \in Workers : WorkerAddBlock(w)
SomeWorkerSend == \E w \in Workers : WorkerSend(w)
Coordinator ==
    \/ CoordFold \/ CoordReport \/ CoordRecvBlock \/ CoordRecvErr
    \/ CoordLoopExit \/ CoordSendStop \/ CoordWait \/ CoordSummary

Next ==
    \/ ProducerSend \/ ProducerStop \/ ProducerExit
    \/ SomeWorkerRecv \/ SomeWorkerStop \/ SomeWorkerExecute
    \/ SomeWorkerAddBlock \/ SomeWorkerSend
    \/ CoordFold \/ CoordReport \/ CoordRecvBlock \/ CoordRecvErr
    \/ CoordLoopExit \/ CoordSendStop \/ CoordWait \/ CoordSummary

Spec == Init /\ [][Next]_vars

\* The Go scheduler runs every goroutine that can take a step.
Fairness ==
    /\ WF_vars(Producer)
    /\ \A w \in 1 .. MaxWorkers : WF_vars(w \in Workers /\ Worker(w))
    /\ WF_vars(Coordinator)

\* the runs explored under fairness: first = 0, at most one failing block
InitFair ==
    /\ Init
    /\ first = 0
    /\ Cardinality(failing) <= 1

FairSpec == InitFair /\ [][Next]_vars /\ Fairness

TypeOK ==
    /\ numWorkers \in 1 .. MaxWorkers
    /\ stopChan \in 0 .. stopCap
    /\ Len(workChan) <= workCap
    /\ Len(doneChan) <= doneCap
    /\ cpc \in {"loop", "recv", "stop", "wait", "summary", "returned"}
    /\ ppc \in {"loop", "exited", "stopped"}

(***************************************************************************)
(* The caller invokes ExecuteSegment again on the same segment, with the   *)
(* same data source and callback and any worker count.                     *)
(***************************************************************************)
ExecuteSegmentAgain ==
    /\ cpc = "returned"
    /\ runs < MaxRuns
    /\ runs' = runs + 1
    /\ prev' = [err |-> retErr, nb |-> summary[1], nt |-> summary[2],
                workers |-> numWorkers]
    /\ UNCHANGED <<inputs, callv>>
    /\ \E n \in 1 .. MaxWorkers :
          /\ n + (last - first + 1) <= MaxLoad
          /\ cfgWorkers' = n
          /\ StartRunNext(NumWorkers')

InitRerun ==
    /\ Init
    /\ first = 0
    /\ Cardinality(failing) <= 1

NextRerun == Next \/ ExecuteSegmentAgain

SpecRerun == InitRerun /\ [][NextRerun]_vars

(***************************************************************************)
(* One call of ExecuteBlock on its own (lines 178-210): any filter         *)
(* configuration, any block of at most MaxTxs transactions, any callback.  *)
(***************************************************************************)
\* ExecuteSegment is not running
NotStarted ==
    /\ numWorkers = 0
    /\ workCap = 0
    /\ doneCap = 0
    /\ stopCap = 0
    /\ workChan = << >>
    /\ doneChan = << >>
    /\ stopChan = 0
    /\ closed = FALSE
    /\ totalNumBlock = 0
    /\ totalNumTx = 0
    /\ ppc = "idle"
    /\ pblock = 0
    /\ wpc = << >>
    /\ wblock = << >>
    /\ wres = << >>
    /\ cpc = "idle"
    /\ block = 0
    /\ waitMap = {}
    /\ stopsSent = 0
    /\ retErr = NoErr
    /\ lastReport = NoReport
    /\ summary = NoSummary
    /\ emitted = << >>
    /\ taken = [b \in 0 .. MaxUint |-> 0]
    /\ recvd = {}
    /\ stopsTaken = << >>
    /\ runs = 0
    /\ prev = NoPrev

SubstateKinds == {Transfer, Absent, Call, Create}

\* every pool.Config: the three filters on or off
Configs ==
    [SkipTransferTxs : BOOLEAN, SkipCallTxs : BOOLEAN, SkipCreateTxs : BOOLEAN]

\* the blocks of at most n transactions
BlocksUpTo(n) == UNION { [1 .. k -> SubstateKinds] : k \in 0 .. n }

InitBlock ==
    /\ first = 0
    /\ last = 0
    /\ config \in Configs
    /\ input \in {0, MaxUint}
    /\ \E txs \in BlocksUpTo(MaxTxs) :
          /\ db = [b \in 0 .. MaxUint |-> IF b = input THEN txs ELSE << >>]
          /\ failing \in SUBSET { <<input, i - 1>> : i \in 1 .. Len(txs) }
    /\ cfgWorkers = 1
    /\ cpuCounts = OneCore
    /\ numCPU = 1
    /\ output = NoOutput
    /\ NotStarted

\* numTx, err := pool.ExecuteBlock(block), with the callback invocations
ExecuteBlockCall ==
    /\ output = NoOutput
    /\ LET r == ExecuteBlockFrom(input, 1, 0) IN
       output' = [fn |-> "ExecuteBlock", numTx |-> r.numTx, err |-> r.err,
                  calls |-> r.calls]
    /\ UNCHANGED <<inputs, sched, input>>

NextBlock == ExecuteBlockCall

SpecBlock == InitBlock /\ [][NextBlock]_vars

(***************************************************************************)
(* The range parser: ParseBlockSegment (lines 55-93) and                   *)
(* ParseBlockSegmentList (lines 97-110).  A string is a sequence of        *)
(* one-character strings.                                                  *)
(***************************************************************************)
ParseMod == 2 ^ ParseBits
\* the largest value ParseUint accepts
MaxParse == ParseMod - 1

Digit == {"0", "1", "2", "3", "4", "5", "6", "7", "8", "9"}
DigitValue ==
    ("0" :> 0) @@ ("1" :> 1) @@ ("2" :> 2) @@ ("3" :> 3) @@ ("4" :> 4) @@
    ("5" :> 5) @@ ("6" :> 6) @@ ("7" :> 7) @@ ("8" :> 8) @@ ("9" :> 9)

\* [0-9_]
WordChar == Digit \cup {"_"}
\* (-|~)
Separator == {"-", "~"}
\* [kM]
SiUnit == {"k", "M"}

\* length of the longest run of [0-9_] that starts at position i of s
RECURSIVE RunLen(_, _)
RunLen(s, i) ==
    IF i > Len(s) \/ s[i] \notin WordChar THEN 0 ELSE 1 + RunLen(s, i + 1)

NoMatch == [ok |-> FALSE, first |-> << >>, last |-> << >>, siunit |-> << >>]
Match(f, l, u) == [ok |-> TRUE, first |-> f, last |-> l, siunit |-> u]

\* re.MatchString(s) and re.FindStringSubmatch(s) for
\* ^(?P<first>[0-9][0-9_]*)((-|~)(?P<last>[0-9][0-9_]*)(?P<siunit>[kM]?))?$
\* a group that takes no part in the match is the empty string
FindStringSubmatch(s) ==
    IF s = << >> \/ s[1] \notin Digit THEN NoMatch
    ELSE LET n1 == 1 + RunLen(s, 2) IN
         IF n1 = Len(s) THEN Match(s, << >>, << >>)
         ELSE IF s[n1 + 1] \notin Separator THEN NoMatch
         ELSE IF n1 + 2 > Len(s) \/ s[n1 + 2] \notin Digit THEN NoMatch
         ELSE LET e == n1 + 2 + RunLen(s, n1 + 3) IN
              IF e = Len(s)
              THEN Match(SubSeq(s, 1, n1), SubSeq(s, n1 + 2, e), << >>)
              ELSE IF e + 1 = Len(s) /\ s[e + 1] \in SiUnit
              THEN Match(SubSeq(s, 1, n1), SubSeq(s, n1 + 2, e), <<s[e + 1]>>)
              ELSE NoMatch

\* strings.ReplaceAll(w, "_", "")
NotUnderscore(c) == c # "_"
ReplaceAllUnderscore(w) == SelectSeq(w, NotUnderscore)

\* strconv.ParseUint(ds, 10, 64) on a string of digits, from position i on
\* with acc the value of the digits before: the value, or a range error
\* once it exceeds the largest unsigned value
RECURSIVE ParseUintFrom(_, _, _)
ParseUintFrom(ds, i, acc) ==
    IF i > Len(ds) THEN [val |-> acc, err |-> "nil"]
    ELSE LET n == acc * 10 + DigitValue[ds[i]] IN
         IF n > MaxParse THEN [val |-> MaxParse, err |-> "range"]
         ELSE ParseUintFrom(ds, i + 1, n)

ParseUint(ds) == ParseUintFrom(ds, 1, 0)

\* a * b on unsigned integers of ParseBits bits: the product modulo
\* 2^ParseBits, by doubling so that no intermediate value leaves the width
RECURSIVE MulUint(_, _)
MulUint(a, b) ==
    IF b = 0 THEN 0
    ELSE LET h == MulUint(a, b \div 2)
             d == (h + h) % ParseMod
         IN  IF b % 2 = 1 THEN (d + a) % ParseMod ELSE d

AddUint(a, b) == (a + b) % ParseMod

\* a *BlockSegment and the three kinds of error; an error names the string
\* it was made for
Seg(f, l) == [kind |-> "ok", first |-> f, last |-> l, of |-> << >>]
ParseErr(kind, s) == [kind |-> kind, first |-> 0, last |-> 0, of |-> s]

\* variant: the unit scales first like last, without the + 1
ScaleFirstNoPlusOne(v, u) ==
    CASE u = <<"k">> -> MulUint(v, Kilo)
      [] u = <<"M">> -> MulUint(v, Mega)
      [] OTHER -> v

\* seg.First = seg.First*1_000 + 1, seg.First = seg.First*1_000_000 + 1
ScaleFirst(v, u) ==
    CASE u = <<"k">> -> AddUint(MulUint(v, Kilo), 1)
      [] u = <<"M">> -> AddUint(MulUint(v, Mega), 1)
      [] OTHER -> v

\* seg.Last = seg.Last * 1_000, seg.Last = seg.Last * 1_000_000
ScaleLast(v, u) ==
    CASE u = <<"k">> -> MulUint(v, Kilo)
      [] u = <<"M">> -> MulUint(v, Mega)
      [] OTHER -> v

\* variant: the order of the bounds is not checked
FirstLargerNever(f, l) == FALSE

\* if seg.First > seg.Last
FirstLarger(f, l) == f > l

ParseBlockSegment(s) ==
    LET matches == FindStringSubmatch(s) IN
    IF ~matches.ok THEN ParseErr("InvalidFormat", s)
    ELSE LET pf == ParseUint(ReplaceAllUnderscore(matches.first)) IN
         IF pf.err # "nil" THEN ParseErr("InvalidFirst", s)
         ELSE LET lastDigits == ReplaceAllUnderscore(matches.last)
                  pl == IF Len(lastDigits) = 0 THEN pf ELSE ParseUint(lastDigits)
              IN
              IF pl.err # "nil" THEN ParseErr("InvalidLast", s)
              ELSE LET f == ScaleFirst(pf.val, matches.siunit)
                       l == ScaleLast(pl.val, matches.siunit)
                   IN  IF FirstLarger(f, l) THEN ParseErr("RangeInverted", s)
                       ELSE Seg(f, l)

\* strings.Split(s, ","): the pieces between the commas, from position i on
\* with piece the characters since the last comma
RECURSIVE SplitFrom(_, _, _)
SplitFrom(s, i, piece) ==
    IF i > Len(s) THEN <<piece>>
    ELSE IF s[i] = "," THEN <<piece>> \o SplitFrom(s, i + 1, << >>)
    ELSE SplitFrom(s, i + 1, Append(piece, s[i]))

Split(s) == SplitFrom(s, 1, << >>)

\* a list of segments, or nil and the error
SegList(br) == [kind |-> "ok", list |-> br, err |-> Seg(0, 0)]
ListErr(e) == [kind |-> "error", list |-> << >>, err |-> e]

\* variant: a piece that fails to parse is left out of the list
RECURSIVE ParseListFromDropFailed(_, _, _)
ParseListFromDropFailed(lxs, i, br) ==
    IF i > Len(lxs) THEN SegList(br)
    ELSE LET seg == ParseBlockSegment(lxs[i]) IN
         IF seg.kind # "ok" THEN ParseListFromDropFailed(lxs, i + 1, br)
         ELSE ParseListFromDropFailed(lxs, i + 1, Append(br, seg))

\* the loop of ParseBlockSegmentList from piece i on
RECURSIVE ParseListFrom(_, _, _)
ParseListFrom(lxs, i, br) ==
    IF i > Len(lxs) THEN SegList(br)
    ELSE LET seg == ParseBlockSegment(lxs[i]) IN
         IF seg.kind # "ok" THEN ListErr(seg)
         ELSE ParseListFrom(lxs, i + 1, Append(br, seg))

ParseBlockSegmentList(s) == ParseListFrom(Split(s), 1, << >>)

\* the characters the strings tried are made of
Alphabet == {"0", "1", "2", "_", "-", "~", "k", "M", "a", ","}

\* every string of at most n characters of the alphabet
StringsUpTo(n) == UNION { [1 .. k -> Alphabet] : k \in 0 .. n }

\* longer strings and strings of other characters
Examples ==
    { <<"1", "0", "0", "1">>,
      <<"1", "_", "0", "0", "1", "-", "2", "_", "0", "0", "0">>,
      <<"5", "-", "1">>,
      <<"a", "b", "c">>,
      <<"1", "0", "k">>,
      <<"9", "9", "9", "9", "9", "9", "9", "9">>,
      <<"1", "-", "9", "9", "9", "9", "9", "9", "9", "9">>,
      <<"0", "-", "9", "M">>,
      <<"9", "-", "1", "0", "M">>,
      <<"9", "0", "0", "0", "-", "1", "k">>,
      <<"1", "-", "2", ",", "5", "-", "1", ",", "a">>,
      <<"2", "-", "5", ",", "1", "~", "3", ",", "4">>,
      <<"1", "-", "2", "k", ",", "9", "9", "9", "9", "9", "9", "9", "9", ",", "a">> }

InitParse ==
    /\ input \in StringsUpTo(MaxStrLen) \cup Examples
    /\ output = NoOutput
    /\ first = 0
    /\ last = 0
    /\ config = NoSkip
    /\ failing = {}
    /\ db = SegmentDB
    /\ cfgWorkers = 1
    /\ cpuCounts = OneCore
    /\ numCPU = 1
    /\ NotStarted

\* seg, err := ParseBlockSegment(s)
ParseBlockSegmentCall ==
    /\ output = NoOutput
    /\ output' = [fn |-> "ParseBlockSegment", res |-> ParseBlockSegment(input)]
    /\ UNCHANGED <<inputs, sched, input>>

\* br, err := ParseBlockSegmentList(s)
ParseBlockSegmentListCall ==
    /\ output = NoOutput
    /\ output' = [fn |-> "ParseBlockSegmentList", res |-> ParseBlockSegmentList(input)]
    /\ UNCHANGED <<inputs, sched, input>>

NextParse == ParseBlockSegmentCall \/ ParseBlockSegmentListCall

SpecParse == InitParse /\ [][NextParse]_vars

(***************************************************************************)
(* The start of ExecuteSegment (lines 213-301) on any machine and with any *)
(* pool.Config.Workers: the worker count is resolved, the channels are     *)
(* made and the goroutines are started.                                    *)
(***************************************************************************)
\* cpu.Counts(false) returned an error
CountsFailed == [cores |-> 0, err |-> "error"]

InitWorkers ==
    /\ \E sc \in Scenarios : first = sc.first /\ config = sc.config
    /\ last \in first .. (first + MaxSegLen - 1)
    /\ last < MaxUint
    /\ failing = {}
    /\ db = SegmentDB
    /\ cfgWorkers \in -1 .. MaxWorkers
    /\ cpuCounts \in {CountsFailed} \cup { [cores |-> c, err |-> "nil"] : c \in 1 .. MaxWorkers }
    /\ numCPU \in 1 .. MaxWorkers
    /\ input = NoInput
    /\ output = NoOutput
    /\ NotStarted

\* numWorkers := pool.NumWorkers(); the three make(chan ...); the go
\* statements of the workers and of the producer
ExecuteSegmentStart ==
    /\ cpc = "idle"
    /\ runs' = runs + 1
    /\ StartRunNext(NumWorkers)
    /\ UNCHANGED <<inputs, callv, cfgWorkers, prev>>

NextWorkers == ExecuteSegmentStart

SpecWorkers == InitWorkers /\ [][NextWorkers]_vars

(***************************************************************************)
(* Segments at the top of the block numbers: last is the largest unsigned  *)
(* value or just below it.  block++ (Inc) wraps at the width.              *)
(***************************************************************************)
InitMaxLast ==
    /\ first \in (MaxUint - MaxSegLen + 1) .. MaxUint
    /\ config = NoSkip
    /\ db = SegmentDB
    /\ cpuCounts = OneCore
    /\ numCPU = 1
    /\ input = NoInput
    /\ output = NoOutput
    /\ last \in first .. MaxUint
    /\ \E F \in SUBSET (first .. last) :
          /\ Cardinality(F) <= 1
          /\ failing = FailAtLastTx(F)
    /\ \E n \in 1 .. MaxWorkers :
          /\ n + (last - first + 1) <= MaxLoad
          /\ cfgWorkers = n
          /\ StartRun(NumWorkers)
    /\ runs = 1
    /\ prev = NoPrev

\* the producer's send, followed until the producer has put MaxWrap blocks
\* more than the segment holds on workChan
ProducerSendUpToWrap ==
    /\ Len(emitted) < (last - first + 1) + MaxWrap
    /\ ProducerSend

NextMaxLast ==
    \/ ProducerSendUpToWrap \/ ProducerStop \/ ProducerExit
    \/ SomeWorkerRecv \/ SomeWorkerStop \/ SomeWorkerExecute
    \/ SomeWorkerAddBlock \/ SomeWorkerSend
    \/ CoordFold \/ CoordReport \/ CoordRecvBlock \/ CoordRecvErr
    \/ CoordLoopExit \/ CoordSendStop \/ CoordWait \/ CoordSummary

SpecMaxLast == InitMaxLast /\ [][NextMaxLast]_vars

(***************************************************************************)
(* Notions used by the properties.                                         *)
(***************************************************************************)
\* the coordinator has left its loop (a return statement was executed)
LeftLoop == cpc \in {"stop", "wait", "summary", "returned"}
\* ExecuteSegment has returned to its caller
Returned == cpc = "returned"
\* blocks of the segment for which ExecuteBlock returns an error
FailedBlocks == { b \in Segment : ExecuteBlock(b).err # NoErr }

RECURSIVE SumNumTx(_)
\* sum of the counts ExecuteBlock returns for the blocks of set S
SumNumTx(S) ==
    IF S = {} THEN 0
    ELSE LET b == CHOOSE x \in S : TRUE
         IN ExecuteBlock(b).numTx + SumNumTx(S \ {b})

(***************************************************************************)
(* Properties.                                                             *)
(***************************************************************************)
\* C1: when the callback always succeeds, ExecuteSegment leaves its loop
\* only through `return nil`, and from then on (in particular at return)
\* the transaction counter is the sum of the counts ExecuteBlock returns
\* for the blocks of [first,last] and the block counter is last-first+1,
\* whatever the worker count and the interleaving.
C1_SuccessTotals ==
    (FailedBlocks = {} /\ LeftLoop) =>
        /\ retErr = NoErr
        /\ totalNumTx = SumNumTx(Segment)
        /\ totalNumBlock = last - first + 1
        /\ (Returned => summary = <<last - first + 1, SumNumTx(Segment)>>)

\* a successful run of a segment of several blocks has returned, 2 workers
C1_Witness ==
    /\ Returned /\ FailedBlocks = {} /\ numWorkers = 2
    /\ last - first + 1 = MaxSegLen /\ totalNumTx > last - first + 1

\* C2: when the callback fails in block k only, the value ExecuteSegment
\* returns is the error ExecuteBlock produces for k (pool name, block k,
\* failing transaction index); and whenever some block of the segment fails
\* the returned value is never nil.
C2_ErrorOfFailingBlock ==
    LeftLoop =>
        /\ \A k \in Segment : FailedBlocks = {k} => retErr = ExecuteBlock(k).err
        /\ FailedBlocks # {} => retErr # NoErr

\* a run whose only failing block is not the first one has returned its error
C2_Witness ==
    /\ Returned /\ Cardinality(FailedBlocks) = 1
    /\ \E k \in FailedBlocks : k > first /\ retErr = BlockErr(k, ExecuteBlock(k).err.tx)
    /\ recvd # {}

\* C3: in a run where some block fails, no reachable state is a deadlock:
\* as long as ExecuteSegment has not returned, the producer, a worker or
\* the coordinator can take a step (so the shutdown sequence can complete
\* and every goroutine can exit).
C3_NoDeadlock ==
    (FailedBlocks # {} /\ ~Returned) => ENABLED Next

\* C4: ordered prefix.  Every block of [first, cursor) has had its success
\* record received by the coordinator; the cursor stays within
\* [first, last+1], moves only by +1 and only when its own block is in the
\* pending set; a progress report names the current cursor value (so all
\* blocks below it are done) and never a value below the previous report.
C4_PrefixInv ==
    /\ block \in first .. (last + 1)
    /\ \A b \in first .. (block - 1) : b \in recvd
    /\ lastReport # NoReport =>
          /\ lastReport \in first .. block
          /\ \A b \in first .. (lastReport - 1) : b \in recvd

C4_CursorStep ==
    /\ block' # block => (block' = block + 1 /\ block \in waitMap)
    /\ lastReport' # lastReport =>
          /\ lastReport' = block
          /\ lastReport' >= lastReport
          /\ \A b \in first .. (lastReport' - 1) : b \in recvd

C4_OrderedPrefix == []C4_PrefixInv /\ [][C4_CursorStep]_vars

\* a report past the first block has been made while a later block, which
\* completed out of order, waits in the pending set
C4_Witness ==
    /\ lastReport # NoReport /\ lastReport > first /\ lastReport = block
    /\ waitMap # {} /\ block \notin waitMap

\* C5: on normal completion (the cursor passed last, return nil) the
\* shutdown sequence terminates: all numWorkers+1 stop signals get sent
\* although the producer left on its own without taking one, every worker
\* exits having consumed exactly one signal, wg.Wait() returns and
\* ExecuteSegment returns nil.
C5_LoopExitedOnSuccess == cpc = "stop" /\ retErr = NoErr /\ ~CoordContinue(block)

C5_ShutdownDone ==
    /\ Returned /\ retErr = NoErr
    /\ stopsSent = numWorkers + 1
    /\ ppc = "exited"
    /\ \A w \in Workers : wpc[w] = "exited" /\ stopsTaken[w] = 1

C5_NormalShutdownTerminates == C5_LoopExitedOnSuccess ~> C5_ShutdownDone

\* a successful run with two workers has returned; the signal meant for
\* the producer is left in stopChan
C5_Witness ==
    /\ C5_ShutdownDone /\ numWorkers = 2 /\ stopChan = 1
    /\ last - first + 1 = MaxSegLen

\* C6: (last below the largest block number) the producer puts block
\* numbers on workChan in strictly ascending order starting at first, each
\* once and none outside [first,last]; a producer that ended without taking
\* a stop signal has emitted the whole range; every emitted block is
\* received by at most one worker, and only emitted blocks are received.
C6_ProducerOrder ==
    /\ Len(emitted) <= last - first + 1
    /\ \A i \in 1 .. Len(emitted) : emitted[i] = first + i - 1
    /\ ppc = "exited" => Len(emitted) = last - first + 1
    /\ \A b \in 0 .. MaxUint :
          /\ taken[b] <= 1
          /\ taken[b] = 1 => \E i \in 1 .. Len(emitted) : emitted[i] = b

\* the producer ran to the end of a segment of several blocks and every
\* block was received by a worker
C6_Witness ==
    /\ ppc = "exited" /\ Len(emitted) = MaxSegLen /\ numWorkers = 2
    /\ \A b \in Segment : taken[b] = 1

\* blocks whose count a worker has added to totalNumTx
TxCounted ==
    { b \in Segment : taken[b] > 0 /\ ~\E w \in Workers : wpc[w] = "exec" /\ wblock[w] = b }
\* blocks a worker has added to totalNumBlock
BlockCounted ==
    { b \in TxCounted : ~\E w \in Workers : wpc[w] = "addBlock" /\ wblock[w] = b }

\* C7 (as stated): the counters grow on success only, so the block counter
\* is the number of blocks executed without error and the transaction
\* counter the sum of their counts.
C7_CountSuccessOnly ==
    /\ totalNumBlock = Cardinality(BlockCounted \ FailedBlocks)
    /\ totalNumTx = SumNumTx(TxCounted \ FailedBlocks)

\* C7 (amended): a worker adds ExecuteBlock's count to the transaction
\* counter and one to the block counter for every block it executes,
\* whether ExecuteBlock failed or not: the block counter is the number of
\* blocks executed, failed ones included, and the transaction counter the
\* sum of the counts returned for them (for a failed block: the
\* transactions processed before the failing one).
C7_CountEveryBlock ==
    /\ totalNumBlock = Cardinality(BlockCounted)
    /\ totalNumTx = SumNumTx(TxCounted)

\* a failed block that had processed a transaction before failing is counted
C7_Witness ==
    \E b \in BlockCounted \cap FailedBlocks :
        /\ ExecuteBlock(b).numTx > 0
        /\ totalNumBlock > Cardinality(BlockCounted \ FailedBlocks)

\* C8: the pending set only holds blocks of [cursor, last] whose success
\* record was received (and that are not yet folded into the cursor), and
\* it is empty once the coordinator loop has exited on success.
C8_PendingSet ==
    /\ waitMap \subseteq (block .. last)
    /\ waitMap \subseteq recvd
    /\ recvd = waitMap \cup (first .. (block - 1))
    /\ (LeftLoop /\ retErr = NoErr) => (block = last + 1 /\ waitMap = {})

\* the loop has just exited on success after blocks were folded
C8_Witness ==
    /\ cpc = "stop" /\ retErr = NoErr /\ waitMap = {}
    /\ block = last + 1 /\ last - first + 1 = MaxSegLen /\ numWorkers = 2

\* C9: every invocation of ExecuteSegment eventually prints the final
\* summary, on normal completion and on an early error return alike, and
\* the summary is printed after the shutdown sequence: its totals are the
\* counters' values once the producer and every worker have exited.
C9_SummaryAfterShutdown ==
    summary # NoSummary =>
        /\ summary = <<totalNumBlock, totalNumTx>>
        /\ ppc # "loop"
        /\ \A w \in Workers : wpc[w] = "exited"

C9_SummaryAlwaysEmitted == <>(summary # NoSummary) /\ []C9_SummaryAfterShutdown

\* C10 (as stated): two runs of ExecuteSegment on the same segment, data
\* source and deterministic callback, with any worker counts and
\* interleavings, end with the same block and transaction totals and the
\* same success/failure outcome.
C10_SameResult ==
    (runs > 1 /\ Returned) =>
        /\ (retErr = NoErr) <=> (prev.err = NoErr)
        /\ summary = <<prev.nb, prev.nt>>

\* C10 (amended): two such runs end with the same success/failure outcome,
\* and with the same block and transaction totals when the outcome is
\* success (no block fails).  When a block fails the totals depend on how
\* many blocks the workers executed before they took their stop signal.
C10_SameResultOnSuccess ==
    (runs > 1 /\ Returned) =>
        /\ (retErr = NoErr) <=> (prev.err = NoErr)
        /\ retErr = NoErr => summary = <<prev.nb, prev.nt>>

\* a second successful run, with another worker count than the first, has
\* returned
C10_Witness ==
    /\ runs > 1 /\ Returned /\ retErr = NoErr
    /\ prev.workers # numWorkers /\ last - first + 1 = MaxSegLen
    /\ summary[2] > 0

(***************************************************************************)
(* Notions about one call of ExecuteBlock.                                 *)
(***************************************************************************)
Range(q) == { q[i] : i \in 1 .. Len(q) }

\* the transactions of the block the call was given, by position
CallTxs == GetBlockSubstates(input)

\* the call of ExecuteBlock has returned
BlockReturned == output.fn = "ExecuteBlock"

\* positions the loop reached: all of them, or up to the failing one
Examined ==
    IF output.err = NoErr THEN 1 .. Len(CallTxs) ELSE 1 .. (output.err.tx + 1)

\* the callback was invoked with the transaction at position i
Invoked(i) == (i - 1) \in Range(output.calls)

HasDest(s) == s.to # "nil"
HasCode(s) == s.exist /\ s.code > 0
\* the three exclusion conditions, each as one filter on its own decides
ExclTransfer(s) == config.SkipTransferTxs /\ HasDest(s) /\ ~HasCode(s)
ExclCall(s) == config.SkipCallTxs /\ HasDest(s) /\ HasCode(s)
ExclCreate(s) == config.SkipCreateTxs /\ ~HasDest(s)

OnlySkipCalls ==
    [SkipTransferTxs |-> FALSE, SkipCallTxs |-> TRUE, SkipCreateTxs |-> FALSE]
OnlySkipTransfers ==
    [SkipTransferTxs |-> TRUE, SkipCallTxs |-> FALSE, SkipCreateTxs |-> FALSE]
OnlySkipCreates ==
    [SkipTransferTxs |-> FALSE, SkipCallTxs |-> FALSE, SkipCreateTxs |-> TRUE]

\* C11: ExecuteBlock leaves the callback uninvoked for a transaction it
\* reaches exactly when one of the three exclusion conditions holds of it
\* (transfer filter: has a recipient without code, a recipient absent from
\* the input state included; call filter: recipient with code; creation
\* filter: no recipient); at most one of the three conditions holds of a
\* transaction, so no order of checking them changes the decision; and a
\* transaction to a recipient with code is left out under the call filter
\* alone and invoked under either other filter alone.
C11_SkipDecision ==
    BlockReturned =>
        \A i \in Examined :
            LET s == CallTxs[i] IN
            /\ ~Invoked(i) <=> (ExclTransfer(s) \/ ExclCall(s) \/ ExclCreate(s))
            /\ ~(ExclTransfer(s) /\ ExclCall(s))
            /\ ~(ExclTransfer(s) /\ ExclCreate(s))
            /\ ~(ExclCall(s) /\ ExclCreate(s))
            /\ (HasDest(s) /\ HasCode(s)) =>
                  /\ config = OnlySkipCalls => ~Invoked(i)
                  /\ config \in {OnlySkipTransfers, OnlySkipCreates} => Invoked(i)

\* a returned call with all three filters on whose block holds a transfer
\* to an absent recipient
C11_Witness ==
    /\ BlockReturned
    /\ config.SkipTransferTxs /\ config.SkipCallTxs /\ config.SkipCreateTxs
    /\ \E i \in Examined : CallTxs[i] = Absent /\ ~Invoked(i)

\* positions of the block whose transaction passes the filters
Kept == { i \in 1 .. Len(CallTxs) : ~SkipTx(CallTxs[i]) }
\* positions where the callback, if invoked, returns an error
KeptFailing == { i \in Kept : TaskFuncFails(input, i - 1) }

\* C12: when an invocation of the callback returns an error, ExecuteBlock
\* invokes it for no later transaction and returns an error naming the
\* block and the index of the failing transaction, which is the first kept
\* transaction the callback fails on, together with the number of
\* transactions whose callback had succeeded before (the failing one is not
\* counted).
C12_StopAtFirstError ==
    (BlockReturned /\ KeptFailing # {}) =>
        \E f \in KeptFailing :
            /\ \A g \in KeptFailing : f <= g
            /\ output.err = BlockErr(input, f - 1)
            /\ \A i \in 1 .. Len(CallTxs) : i > f => ~Invoked(i)
            /\ Invoked(f)
            /\ output.numTx = Cardinality({ i \in Kept : i < f })
            /\ output.numTx = Len(output.calls) - 1

\* a call that failed at the last of three kept transactions, after a
\* skipped one
C12_Witness ==
    /\ BlockReturned
    /\ output.err # NoErr
    /\ output.err.tx = 2
    /\ output.numTx = 1
    /\ Len(CallTxs) = 3
    /\ \E i \in 1 .. 2 : ~Invoked(i)

\* C13: when no invocation of the callback fails, ExecuteBlock returns a nil
\* error and the number of transactions that pass the filters, and it has
\* invoked the callback exactly once for each of them and for no skipped
\* transaction.
C13_AllKeptCounted ==
    (BlockReturned /\ KeptFailing = {}) =>
        /\ output.err = NoErr
        /\ output.numTx = Cardinality(Kept)
        /\ Len(output.calls) = Cardinality(Kept)
        /\ \A i \in 1 .. Len(CallTxs) : Invoked(i) <=> i \in Kept

\* a successful call on a block of which one transaction was skipped and
\* two were executed
C13_Witness ==
    /\ BlockReturned
    /\ output.err = NoErr
    /\ output.numTx = 2
    /\ Len(CallTxs) = 3
    /\ failing # {}

(***************************************************************************)
(* Notions about one call of the range parser.                             *)
(***************************************************************************)
\* ParseBlockSegment, ParseBlockSegmentList has returned
SegmentParsed == output.fn = "ParseBlockSegment"
ListParsed == output.fn = "ParseBlockSegmentList"

\* a numeric component of the grammar: a digit, then digits or underscores
IsWord(w) ==
    /\ Len(w) >= 1
    /\ w[1] \in Digit
    /\ \A i \in 2 .. Len(w) : w[i] \in WordChar

\* the ways to read s by the grammar: first alone, or first, a separator,
\* last and an optional unit
Shapes(s) ==
    { [first |-> w, last |-> << >>, unit |-> << >>] : w \in { z \in {s} : IsWord(z) } }
    \cup
    { [first |-> SubSeq(s, 1, pq[1] - 1), last |-> SubSeq(s, pq[1] + 1, pq[2]),
       unit |-> SubSeq(s, pq[2] + 1, Len(s))] :
      pq \in { x \in (1 .. Len(s)) \X (1 .. Len(s)) :
                 /\ x[1] < x[2]
                 /\ s[x[1]] \in Separator
                 /\ IsWord(SubSeq(s, 1, x[1] - 1))
                 /\ IsWord(SubSeq(s, x[1] + 1, x[2]))
                 /\ \/ x[2] = Len(s)
                    \/ x[2] + 1 = Len(s) /\ s[Len(s)] \in SiUnit } }

InGrammar(s) == Shapes(s) # {}

\* the number a component denotes: its digits in base ten, underscores
\* ignored (w read up to position i)
RECURSIVE DecimalValueUpTo(_, _)
DecimalValueUpTo(w, i) ==
    IF i = 0 THEN 0
    ELSE IF w[i] = "_" THEN DecimalValueUpTo(w, i - 1)
    ELSE DecimalValueUpTo(w, i - 1) * 10 + DigitValue[w[i]]

DecimalValue(w) == DecimalValueUpTo(w, Len(w))

\* the numbers of a shape: last is first when there is no last component
FirstValue(sh) == DecimalValue(sh.first)
LastValue(sh) == IF sh.last = << >> THEN DecimalValue(sh.first) ELSE DecimalValue(sh.last)
\* both fit the unsigned width
ValuesFit(sh) == FirstValue(sh) <= MaxParse /\ LastValue(sh) <= MaxParse

\* multiplication by the scale of a unit in the unsigned width, a factor
\* of ten at a time
TimesTen(x) == (x * 10) % ParseMod
TimesKilo(x) == TimesTen(TimesTen(TimesTen(x)))
TimesUnit(x, u) ==
    CASE u = <<"k">> -> TimesKilo(x)
      [] u = <<"M">> -> TimesKilo(TimesKilo(x))
      [] OTHER -> x
\* the bounds after unit scaling, as unsigned values
ScaledFirst(sh) ==
    IF sh.unit = << >> THEN FirstValue(sh)
    ELSE (TimesUnit(FirstValue(sh), sh.unit) + 1) % ParseMod
ScaledLast(sh) == TimesUnit(LastValue(sh), sh.unit)

\* C14: every interval ParseBlockSegment returns has first <= last; a
\* string in the grammar whose bounds after unit scaling have first > last
\* ("5-1", "1-1k") fails with the range-inverted error and yields no
\* interval; a string outside the grammar ("abc", or a unit without a last
\* component) fails with the invalid-format error, and no other string does.
C14_OrderedOrRejected ==
    SegmentParsed =>
        LET r == output.res IN
        /\ r.kind = "ok" => r.first <= r.last
        /\ r.kind = "InvalidFormat" <=> ~InGrammar(input)
        /\ \A sh \in Shapes(input) :
              (ValuesFit(sh) /\ ScaledFirst(sh) > ScaledLast(sh))
                  => r.kind = "RangeInverted"
        /\ (Len(input) >= 2 /\ IsWord(SubSeq(input, 1, Len(input) - 1))
              /\ input[Len(input)] \in SiUnit) => r.kind = "InvalidFormat"
        /\ input = <<"5", "-", "1">> => r.kind = "RangeInverted"
        /\ input = <<"a", "b", "c">> => r.kind = "InvalidFormat"

\* "1-1k" was rejected as inverted (1001 > 1000)
C14_Witness ==
    /\ SegmentParsed
    /\ input = <<"1", "-", "1", "k">>
    /\ output.res.kind = "RangeInverted"

\* s with each separator replaced by the other one
SwapSeparators(s) ==
    [i \in 1 .. Len(s) |->
        IF s[i] = "-" THEN "~" ELSE IF s[i] = "~" THEN "-" ELSE s[i]]

\* C15: the interval ParseBlockSegment returns follows from the matched
\* components: (first, first) without a last component, (first, last)
\* with a last component and no unit, (first*unit+1, last*unit) in
\* unsigned arithmetic with a unit of 1000 (k) or 1000000 (M); every
\* string in the grammar whose components fit and whose bounds are in
\* order yields its interval; "1001", "1_001-2_000", "1-2k" and "1-2M"
\* yield (1001,1001), (1001,2000), (1001,2000) and (1000001,2000000); and
\* replacing one separator by the other changes nothing of the result.
C15_IntervalOfComponents ==
    SegmentParsed =>
        LET r == output.res
            t == ParseBlockSegment(SwapSeparators(input))
        IN
        /\ r.kind = "ok" =>
              \E sh \in Shapes(input) :
                  /\ r.first = ScaledFirst(sh)
                  /\ r.last = ScaledLast(sh)
                  /\ sh.last = << >> => r = Seg(FirstValue(sh), FirstValue(sh))
                  /\ (sh.last # << >> /\ sh.unit = << >>) =>
                        r = Seg(FirstValue(sh), DecimalValue(sh.last))
        /\ \A sh \in Shapes(input) :
              (ValuesFit(sh) /\ ScaledFirst(sh) <= ScaledLast(sh)) => r.kind = "ok"
        /\ input = <<"1", "0", "0", "1">> => r = Seg(1001, 1001)
        /\ input = <<"1", "_", "0", "0", "1", "-", "2", "_", "0", "0", "0">>
              => r = Seg(1001, 2000)
        /\ input = <<"1", "-", "2", "k">> => r = Seg(1001, 2000)
        /\ input = <<"1", "-", "2", "M">> => r = Seg(1000001, 2000000)
        /\ t.kind = r.kind /\ t.first = r.first /\ t.last = r.last

\* "1~2M" yielded (1000001, 2000000)
C15_Witness ==
    /\ SegmentParsed
    /\ input = <<"1", "~", "2", "M">>
    /\ output.res = Seg(1000001, 2000000)

\* x is exactly v * scale + add over the unbounded integers
ExactlyScaled(x, v, scale, add) ==
    /\ x >= add
    /\ (x - add) % scale = 0
    /\ (x - add) \div scale = v

ScaleOf(u) == CASE u = <<"k">> -> Kilo [] u = <<"M">> -> Mega [] OTHER -> 1

\* C16: ParseBlockSegment fails with an invalid-number error whenever a
\* numeric component exceeds the unsigned width, and for every string in
\* the grammar it never returns an interval whose bounds differ from the
\* exact, unbounded values first*unit+1 and last*unit of its components.
C16_NoSilentOverflow ==
    SegmentParsed =>
        LET r == output.res IN
        \A sh \in Shapes(input) :
            /\ ~ValuesFit(sh) => r.kind \in {"InvalidFirst", "InvalidLast"}
            /\ r.kind = "ok" =>
                  /\ ExactlyScaled(r.first, FirstValue(sh), ScaleOf(sh.unit),
                                   IF sh.unit = << >> THEN 0 ELSE 1)
                  /\ ExactlyScaled(r.last, LastValue(sh), ScaleOf(sh.unit), 0)

\* positions of the commas of s
Commas(s) == { i \in 1 .. Len(s) : s[i] = "," }
\* the k-th piece of s: what lies between the (k-1)-th and the k-th comma
PieceAt(s, k) ==
    LET before == { c \in Commas(s) : Cardinality({ x \in Commas(s) : x <= c }) = k - 1 }
        a == IF k = 1 THEN 0 ELSE CHOOSE c \in before : TRUE
        after == { c \in Commas(s) : c > a } \cup {Len(s) + 1}
        b == CHOOSE c \in after : \A x \in after : c <= x
    IN  SubSeq(s, a + 1, b - 1)

\* C17: ParseBlockSegmentList parses each piece between the commas on its
\* own; when all pieces parse it returns one interval per piece in input
\* order, overlapping or unordered intervals included; otherwise it returns
\* the error of the leftmost piece that fails and no list.
C17_ListOfPieces ==
    ListParsed =>
        LET r == output.res
            n == Cardinality(Commas(input)) + 1
            bad == { k \in 1 .. n : ParseBlockSegment(PieceAt(input, k)).kind # "ok" }
        IN
        IF bad = {}
        THEN /\ r.kind = "ok"
             /\ Len(r.list) = n
             /\ \A k \in 1 .. n : r.list[k] = ParseBlockSegment(PieceAt(input, k))
        ELSE /\ r.kind = "error"
             /\ r.list = << >>
             /\ \E k \in bad :
                   /\ \A j \in bad : k <= j
                   /\ r.err = ParseBlockSegment(PieceAt(input, k))

\* "1-2,5-1,a": the error is that of "5-1", not that of "a"
C17_Witness ==
    /\ ListParsed
    /\ input = <<"1", "-", "2", ",", "5", "-", "1", ",", "a">>
    /\ output.res = ListErr(ParseErr("RangeInverted", <<"5", "-", "1">>))

\* ExecuteSegment has made its channels and started its goroutines
Started == cpc # "idle"

\* C18: NumWorkers returns the configured count as it is when that is
\* greater than 0; otherwise the physical core count when its detection
\* succeeds and the logical processor count only when it fails; and
\* ExecuteSegment starts exactly that many workers and makes workChan and
\* doneChan with the per-worker number of slots (QueueFactor here, 1000 in
\* the source) times that number.
C18_WorkerCount ==
    Started =>
        /\ cfgWorkers > 0 => numWorkers = cfgWorkers
        /\ (cfgWorkers <= 0 /\ cpuCounts.err = "nil") => numWorkers = cpuCounts.cores
        /\ (cfgWorkers <= 0 /\ cpuCounts.err # "nil") => numWorkers = numCPU
        /\ DOMAIN wpc = 1 .. numWorkers
        /\ \A w \in DOMAIN wpc : wpc[w] = "select"
        /\ workCap = QueueFactor * numWorkers
        /\ doneCap = QueueFactor * numWorkers

\* no configured count, two physical cores detected, one logical processor
\* reported: two workers were started
C18_Witness ==
    /\ Started
    /\ cfgWorkers = 0
    /\ cpuCounts = [cores |-> 2, err |-> "nil"]
    /\ numCPU = 1
    /\ Len(wpc) = 2

\* worker w is at a queue operation that cannot go through: its receive
\* from an empty workChan, or its send to a full doneChan
WorkerWaits(w) ==
    \/ wpc[w] = "select" /\ workChan = << >>
    \/ wpc[w] = "send" /\ Len(doneChan) = doneCap

\* the producer is at its send to a full workChan
ProducerWaits ==
    /\ ppc = "loop"
    /\ ProducerContinue(pblock)
    /\ Len(workChan) = workCap

\* C19: at every queue operation on which a worker can block (its receive
\* from workChan, its send of the completion record to doneChan) and at
\* the producer's send to workChan, a stop signal that is available lets
\* the goroutine exit instead of staying blocked.
C19_StopCheckedOnEveryWait ==
    /\ \A w \in Workers :
          (WorkerWaits(w) /\ stopChan > 0) => ENABLED WorkerStop(w)
    /\ (ProducerWaits /\ stopChan > 0) => ENABLED ProducerStop

\* C20: in every successful run a progress report that names the last
\* block as the cursor has been emitted by the time the coordinator leaves
\* its loop, whatever the order in which the blocks complete.
C20_FinalReport ==
    (LeftLoop /\ retErr = NoErr) => lastReport = last

\* the coordinator has received an error record
ErrorReceived == retErr # NoErr

\* this step takes an error record off doneChan
ErrorDequeued ==
    /\ Len(doneChan) > 0
    /\ Head(doneChan).kind = "error"
    /\ doneChan' = Tail(doneChan)

\* the error a worker gets from ExecuteBlock for one of the failing blocks
\* of the segment
ErrorOfFailingBlock(e) ==
    \E b \in FailedBlocks : b \in Segment /\ e = ExecuteBlock(b).err

C21_ErrorInv == ErrorReceived => (LeftLoop /\ ErrorOfFailingBlock(retErr))

\* once an error record was received nothing is received any more, and the
\* cursor, the pending set and the error to return stay as they are; the
\* step that dequeues an error record is the first to do so, and leaves
\* the loop with that record as the error to return
C21_ErrorStep ==
    /\ ErrorReceived =>
          /\ Len(doneChan') >= Len(doneChan)
          /\ recvd' = recvd
          /\ block' = block
          /\ waitMap' = waitMap
          /\ retErr' = retErr
    /\ ErrorDequeued =>
          /\ ~ErrorReceived
          /\ retErr' = Head(doneChan)
          /\ cpc' = "stop"
          /\ block' = block
          /\ waitMap' = waitMap

\* C21: once the coordinator receives an error completion record it
\* returns that error at once: it receives no further completion record
\* and the cursor and the pending set stay unchanged from then on; the
\* error returned is the first error record dequeued from doneChan, the
\* error of one of the failing blocks of the segment (not necessarily the
\* lowest-numbered one).
C21_ReturnFirstErrorRecord == []C21_ErrorInv /\ [][C21_ErrorStep]_vars

\* two blocks fail, and the call has returned the error of the higher one
C21_Witness ==
    /\ Returned
    /\ ErrorReceived
    /\ \E b \in FailedBlocks : b < retErr.block

\* a goroutine that has not ended
ProducerRunning == ppc = "loop"
WorkerRunning(w) == wpc[w] # "exited"

C22_ClosedInv ==
    closed => (~ProducerRunning /\ \A w \in Workers : ~WorkerRunning(w))

\* nothing is sent on or received from a closed queue
C22_ClosedStep == closed => (workChan' = workChan /\ doneChan' = doneChan)

\* C22: workChan and doneChan are closed only after every worker and the
\* producer have exited: in no reachable state is a queue closed while a
\* worker or the producer can still run, and no step sends on or receives
\* from a closed queue, on the success path and on the error path alike.
C22_CloseAfterExit == []C22_ClosedInv /\ [][C22_ClosedStep]_vars

\* the queues were closed on the error path
C22_Witness ==
    /\ closed
    /\ ErrorReceived
    /\ \A w \in Workers : stopsTaken[w] = 1

\* completion records the coordinator has taken off doneChan
NumReceived == Cardinality(recvd) + (IF ErrorReceived THEN 1 ELSE 0)

\* a worker holds a block it has not yet counted or not yet published
UpdatePending == \E w \in Workers : wpc[w] \in {"exec", "addBlock", "send"}

\* C23: a worker adds to the shared counters for a block before it
\* publishes the block's completion record: in every reachable state the
\* block counter is at least the number of records in doneChan plus the
\* number the coordinator has received, the transaction counter includes
\* the count of every block whose record was received, and when the
\* coordinator leaves its loop on success the block counter is
\* last-first+1 and no worker holds a block.
C23_CountBeforePublish ==
    /\ totalNumBlock >= Len(doneChan) + NumReceived
    /\ totalNumTx >= SumNumTx(recvd)
    /\ (LeftLoop /\ ~ErrorReceived) =>
          /\ totalNumBlock = last - first + 1
          /\ ~UpdatePending

\* the coordinator holds the record of a block while another worker is
\* between executing and publishing
C23_Witness ==
    /\ cpc = "loop"
    /\ Cardinality(recvd) = 1
    /\ totalNumBlock = 2
    /\ \E w \in Workers : wpc[w] = "send"

\* C24: for a segment whose last is the largest unsigned block number the
\* producer emits exactly the blocks first..last and then its loop ends,
\* and once every block is received and folded the coordinator's cursor is
\* past last so that its loop ends: block++ past last does not wrap around
\* and re-enter the loops.
C24_NoWrapAround ==
    last = MaxUint =>
        /\ Len(emitted) <= last - first + 1
        /\ \A i \in 1 .. Len(emitted) : emitted[i] = first + i - 1
        /\ (ppc = "loop" /\ Len(emitted) = last - first + 1)
              => ~ProducerContinue(pblock)
        /\ (cpc = "loop" /\ recvd = Segment /\ waitMap = {})
              => ~CoordContinue(block)

\* data := <-doneChan; default: panic(...)  (lines 344-346): the record at
\* the head of doneChan is neither a block number nor an error
CoordPanic ==
    /\ cpc = "recv"
    /\ Len(doneChan) > 0
    /\ Head(doneChan).kind \notin {"uint64", "error"}
    /\ doneChan' = Tail(doneChan)
    /\ cpc' = "panicked"
    /\ UNCHANGED <<inputs, callv, workChan, stopChan, closed, counters, prodv, workv, block, waitMap, stopsSent, retErr, lastReport, summary, recvd, runv>>

\* record r is the number of a block of the segment that ExecuteBlock
\* executes without error
IsSegmentBlockRecord(r) ==
    /\ r.kind = "uint64"
    /\ r.block \in Segment
    /\ ExecuteBlock(r.block).err = NoErr

\* record r is an error ExecuteBlock returns
IsBlockErrorRecord(r) ==
    /\ r.kind = "error"
    /\ \E b \in 0 .. MaxUint : ExecuteBlock(b).err = r

\* C25: every record on doneChan is either the number of a block of
\* [first,last] that a worker executed without error or an error value
\* that ExecuteBlock produced, so the coordinator's branch for a record of
\* any other kind (the panic) can never be taken.
C25_RecordsRecognized ==
    /\ \A i \in 1 .. Len(doneChan) :
          IsSegmentBlockRecord(doneChan[i]) \/ IsBlockErrorRecord(doneChan[i])
    /\ ~ENABLED CoordPanic

\* doneChan holds the number of a block and the error of another
C25_Witness ==
    /\ \E i \in 1 .. Len(doneChan) : doneChan[i].kind = "uint64"
    /\ \E i \in 1 .. Len(doneChan) : doneChan[i].kind = "error"

====
